---- MODULE Spec2Model ----
(***************************************************************************)
(* A model of gpii-glob (fluid-glob): findFiles and the functions beneath  *)
(* it.  A JavaScript string is a sequence of one-character strings, so     *)
(* that indexOf, substring, split, the validation regular expressions,     *)
(* path.posix.resolve and minimatch are computed character by character.   *)
(***************************************************************************)
EXTENDS Naturals, Sequences, FiniteSets, TLC

(***************************************************************************)
(* Strings                                                                 *)
(***************************************************************************)

\* The UTF-16 code unit of every character the model uses (Array.sort and
\* the character classes of the regular expressions read it).
CharCode ==
    [c \in {"!", "%", "(", ")", "*", "-", ".", "/", ":", "?", "[", "\\", "]",
            "a", "b", "c", "d", "e", "j", "p", "r", "s", "x", "{", "|", "}"} |->
        CASE c = "!" -> 33 [] c = "%" -> 37 [] c = "(" -> 40 [] c = ")" -> 41
          [] c = "*" -> 42 [] c = "-" -> 45 [] c = "." -> 46 [] c = "/" -> 47
          [] c = ":" -> 58 [] c = "?" -> 63 [] c = "[" -> 91 [] c = "\\" -> 92
          [] c = "]" -> 93 [] c = "a" -> 97 [] c = "b" -> 98 [] c = "c" -> 99
          [] c = "d" -> 100 [] c = "e" -> 101 [] c = "j" -> 106 [] c = "p" -> 112
          [] c = "r" -> 114 [] c = "s" -> 115 [] c = "x" -> 120 [] c = "{" -> 123
          [] c = "|" -> 124 [] c = "}" -> 125]

\* [a-zA-Z] over the model's characters.
IsLetter(c) == CharCode[c] >= 97 /\ CharCode[c] <= 122

\* String.prototype.startsWith / a regular expression anchored with ^.
StartsWith(s, pre) ==
    /\ Len(s) >= Len(pre)
    /\ SubSeq(s, 1, Len(pre)) = pre

\* s contains one of the characters of cs (a character class, unanchored).
ContainsAny(s, cs) == \E i \in 1..Len(s) : s[i] \in cs

\* String.prototype.substring(1).
Substring1(s) == SubSeq(s, 2, Len(s))

\* String.prototype.split(sep) for a one-character separator: every
\* separator ends a piece, so "a//b" gives "a", "", "b" and "" gives "".
RECURSIVE SplitAcc(_, _, _, _, _)
SplitAcc(s, seps, i, cur, acc) ==
    IF i > Len(s) THEN Append(acc, cur)
    ELSE IF s[i] \in seps THEN SplitAcc(s, seps, i + 1, <<>>, Append(acc, cur))
    ELSE SplitAcc(s, seps, i + 1, Append(cur, s[i]), acc)

Split(s, sep) == SplitAcc(s, {sep}, 1, <<>>, <<>>)

\* String.prototype.split(/[seps]+/): a run of separators ends one piece.
RECURSIVE SplitRunsAcc(_, _, _, _, _)
SplitRunsAcc(s, seps, i, cur, acc) ==
    IF i > Len(s) THEN Append(acc, cur)
    ELSE IF s[i] \in seps
         THEN IF i > 1 /\ s[i - 1] \in seps
              THEN SplitRunsAcc(s, seps, i + 1, cur, acc)
              ELSE SplitRunsAcc(s, seps, i + 1, <<>>, Append(acc, cur))
    ELSE SplitRunsAcc(s, seps, i + 1, Append(cur, s[i]), acc)

SplitRuns(s, seps) == SplitRunsAcc(s, seps, 1, <<>>, <<>>)

\* Array.prototype.join(sep).
RECURSIVE Join(_, _)
Join(parts, sep) ==
    IF Len(parts) = 0 THEN <<>>
    ELSE IF Len(parts) = 1 THEN parts[1]
    ELSE parts[1] \o sep \o Join(Tail(parts), sep)

\* The < of JavaScript strings: code unit by code unit, a proper prefix first.
RECURSIVE StrLess(_, _)
StrLess(a, b) ==
    IF Len(b) = 0 THEN FALSE
    ELSE IF Len(a) = 0 THEN TRUE
    ELSE IF a[1] = b[1] THEN StrLess(Tail(a), Tail(b))
    ELSE CharCode[a[1]] < CharCode[b[1]]

\* The entries left in an order readdirSync may give them in (here the
\* descending one), as without the call of sort().
RECURSIVE SortStringsNot(_)
SortStringsNot(S) ==
    IF S = {} THEN <<>>
    ELSE LET m == CHOOSE x \in S : \A y \in S \ {x} : StrLess(y, x)
         IN <<m>> \o SortStringsNot(S \ {m})

\* Array.prototype.sort() with no comparator, applied to distinct strings.
RECURSIVE SortStrings(_)
SortStrings(S) ==
    IF S = {} THEN <<>>
    ELSE LET m == CHOOSE x \in S : \A y \in S \ {x} : StrLess(x, y)
         IN <<m>> \o SortStrings(S \ {m})

(***************************************************************************)
(* Library functions the code calls: path.posix.resolve, minimatch,        *)
(* fluid.module.resolvePath                                                *)
(***************************************************************************)

\* The working directory path.posix.resolve falls back to when no argument
\* is absolute (never the case for an absolute scan root).
Cwd == <<"/">>

\* path.posix.resolve, step 1: from the last argument backwards, prepend
\* arguments (skipping empty ones) until one is absolute.
RECURSIVE ResolveJoin(_, _, _)
ResolveJoin(args, i, resolved) ==
    IF i < 1 THEN Cwd \o <<"/">> \o resolved
    ELSE IF Len(args[i]) = 0 THEN ResolveJoin(args, i - 1, resolved)
    ELSE IF args[i][1] = "/" THEN args[i] \o <<"/">> \o resolved
    ELSE ResolveJoin(args, i - 1, args[i] \o <<"/">> \o resolved)

\* path.posix.resolve, step 2 (normalizeString): drop "" and ".", let ".."
\* remove the segment before it, and never climb above "/".
RECURSIVE NormalizeSegments(_, _, _)
NormalizeSegments(segs, i, acc) ==
    IF i > Len(segs) THEN acc
    ELSE IF segs[i] = <<>> \/ segs[i] = <<".">> THEN NormalizeSegments(segs, i + 1, acc)
    ELSE IF segs[i] = <<".", ".">>
         THEN NormalizeSegments(segs, i + 1,
                                IF Len(acc) = 0 THEN acc ELSE SubSeq(acc, 1, Len(acc) - 1))
    ELSE NormalizeSegments(segs, i + 1, Append(acc, segs[i]))

PosixResolve(args) ==
    <<"/">> \o Join(NormalizeSegments(Split(ResolveJoin(args, Len(args), <<>>), "/"), 1, <<>>),
                    <<"/">>)

\* The directory registered for the package "p" and fluid.module.resolvePath:
\* a leading %p is replaced by that directory, any other path is kept.
PackageDir == <<"/", "r">>

ResolvePath(rootPath) ==
    IF StartsWith(rootPath, <<"%", "p">>)
    THEN PackageDir \o SubSeq(rootPath, 3, Len(rootPath))
    ELSE rootPath

\* minimatch: one path segment against one pattern segment holding * or ?
\* (* is [^/]*?, ? is [^/]).
RECURSIVE Wild(_, _, _, _)
Wild(name, i, pat, j) ==
    IF j > Len(pat) THEN i > Len(name)
    ELSE IF pat[j] = "*"
         THEN Wild(name, i, pat, j + 1) \/ (i <= Len(name) /\ Wild(name, i + 1, pat, j))
    ELSE IF pat[j] = "?" THEN i <= Len(name) /\ Wild(name, i + 1, pat, j + 1)
    ELSE i <= Len(name) /\ name[i] = pat[j] /\ Wild(name, i + 1, pat, j + 1)

\* minimatch's parse() of one pattern segment, applied to a path segment: a
\* segment with no magic is compared as a string; a magic one never matches
\* the empty segment and, when it starts with * or ?, matches a leading "."
\* only under the dot option (and then neither "." nor "..").
SegMatch(name, pat, options) ==
    IF ~ContainsAny(pat, {"*", "?"}) THEN name = pat
    ELSE /\ Len(name) > 0
         /\ (pat[1] \in {"*", "?"} =>
                IF options.dot THEN name # <<".">> /\ name # <<".", ".">>
                ELSE name[1] # ".")
         /\ Wild(name, 1, pat, 1)

\* A segment that ** may not swallow.
IsDotSegment(seg, options) ==
    \/ seg = <<".">>
    \/ seg = <<".", ".">>
    \/ (~options.dot /\ Len(seg) > 0 /\ seg[1] = ".")

GLOBSTAR == <<"*", "*">>

\* minimatch's matchOne(file, pattern, partial = false) from positions fi, pi.
RECURSIVE MatchOne(_, _, _, _, _)
RECURSIVE Swallow(_, _, _, _, _)
MatchOne(file, fi, pattern, pi, options) ==
    IF fi > Len(file) \/ pi > Len(pattern)
    THEN IF fi > Len(file) /\ pi > Len(pattern) THEN TRUE
         ELSE IF fi > Len(file) THEN FALSE
         ELSE fi = Len(file) /\ file[fi] = <<>>
    ELSE IF pattern[pi] = GLOBSTAR
         THEN IF pi = Len(pattern)
              THEN \A k \in fi..Len(file) : ~IsDotSegment(file[k], options)
              ELSE Swallow(file, fi, pattern, pi + 1, options)
    ELSE /\ SegMatch(file[fi], pattern[pi], options)
         /\ MatchOne(file, fi + 1, pattern, pi + 1, options)

\* The while loop of a ** that is not last: try the rest of the pattern at
\* fr, else swallow file[fr] when ** may and try again.
Swallow(file, fr, pattern, pr, options) ==
    IF fr > Len(file) THEN FALSE
    ELSE \/ MatchOne(file, fr, pattern, pr, options)
         \/ (~IsDotSegment(file[fr], options) /\ Swallow(file, fr + 1, pattern, pr, options))

\* The number of leading "!" of a pattern (minimatch's parseNegate).
RECURSIVE NegateOffset(_)
NegateOffset(pattern) ==
    IF Len(pattern) > 0 /\ pattern[1] = "!" THEN 1 + NegateOffset(Tail(pattern)) ELSE 0

\* The last non-empty segment of a split path, else its first segment.
RECURSIVE Basename(_, _)
Basename(f, i) ==
    IF i <= 1 THEN f[1] ELSE IF f[i] # <<>> THEN f[i] ELSE Basename(f, i - 1)

\* minimatch(p, pattern, options) for patterns without braces, classes and
\* extglobs; options holds the flags dot and matchBase.
minimatch(p, pattern, options) ==
    IF pattern = <<>> THEN p = <<>>
    ELSE LET off     == NegateOffset(pattern)
             negate  == off % 2 = 1
             parts   == SplitRuns(SubSeq(pattern, off + 1, Len(pattern)), {"/"})
             f       == SplitRuns(p, {"/"})
             file    == IF options.matchBase /\ Len(parts) = 1
                        THEN <<Basename(f, Len(f))>>
                        ELSE f
             hit     == MatchOne(file, 1, parts, 1, options)
         IN IF hit THEN ~negate ELSE negate

(***************************************************************************)
(* The file system: a function from the absolute path of every entry       *)
(* beneath (and including) the scan root to its kind.                      *)
(*   "file"   a regular file          "dir"    a directory                 *)
(*   "other"  stat succeeds, neither isFile() nor isDirectory() (a socket) *)
(*   "broken" a dangling link: listed by its parent, statSync throws       *)
(*   "locked" a directory readdirSync throws on (EACCES)                   *)
(***************************************************************************)

\* fs.statSync(path): throws on a dangling link or a missing path.
StatThrows(fs, path) == path \notin DOMAIN fs \/ fs[path] = "broken"

IsDirectory(fs, path) == fs[path] \in {"dir", "locked"}

IsFile(fs, path) == fs[path] = "file"

\* fs.readdirSync(dirPath): throws unless dirPath is a readable directory.
ReaddirThrows(fs, dirPath) == dirPath \notin DOMAIN fs \/ fs[dirPath] # "dir"

\* The names fs.readdirSync(dirPath) returns.
ReaddirNames(fs, dirPath) ==
    LET pre == IF dirPath = <<"/">> THEN dirPath ELSE dirPath \o <<"/">>
    IN {SubSeq(q, Len(pre) + 1, Len(q)) :
            q \in {q \in DOMAIN fs : /\ Len(q) > Len(pre)
                                     /\ StartsWith(q, pre)
                                     /\ \A i \in (Len(pre) + 1)..Len(q) : q[i] # "/"}}

(***************************************************************************)
(* Pattern classification (negativePatterns, positivePatterns,             *)
(* positivePattern)                                                        *)
(***************************************************************************)

\* pattern.indexOf("!") === 0
LeadingBang(pattern) == Len(pattern) > 0 /\ pattern[1] = "!"

negativePatterns(patterns) ==
    LET kept == SelectSeq(patterns, LAMBDA pattern : LeadingBang(pattern))
    IN [i \in 1..Len(kept) |-> Substring1(kept[i])]

\* positivePatterns with the test indexOf("!") === -1: a "!" anywhere makes a
\* pattern negative.
positivePatternsNoBang(patterns) ==
    SelectSeq(patterns, LAMBDA pattern : ~ContainsAny(pattern, {"!"}))

positivePatterns(patterns) ==
    SelectSeq(patterns, LAMBDA pattern : ~LeadingBang(pattern))

positivePattern(pattern) ==
    IF LeadingBang(pattern) THEN Substring1(pattern) ELSE pattern

(***************************************************************************)
(* Validation (invalidGlobRules, validatePattern, validatePatternArray)    *)
(***************************************************************************)

\* The default rules, in the order fluid.each visits the object's keys.
invalidGlobRules ==
    << [name |-> "noLeadingWildcard",  message |-> "contains a leading wildcard"],
       [name |-> "noWindowsSeparator", message |-> "contains a windows separator"],
       [name |-> "noParentDir",        message |-> "contains a reference to a parent directory"],
       [name |-> "noRegexp",
        message |-> "contains a character used to define a regular expression"],
       [name |-> "noWholeRoot",
        message |-> "contains a reference to the whole of the root directory"] >>

\* A caller's rule (the rejectAll rule of the end-to-end tests).
rejectAll == [name |-> "rejectAll", message |-> "contains one or more characters"]

\* str.match(rule.pattern), by the rule's regular expression.
RuleMatches(rule, str) ==
    CASE rule.name = "noLeadingWildcard" ->                      \* /^(\.\/)?\*\*/
            \/ StartsWith(str, <<"*", "*">>)
            \/ StartsWith(str, <<".", "/", "*", "*">>)
      [] rule.name = "noWindowsSeparator" ->                     \* /\\/
            ContainsAny(str, {"\\"})
      [] rule.name = "noParentDir" ->                            \* /^\.\./
            StartsWith(str, <<".", ".">>)
      [] rule.name = "noRegexp" ->                               \* /[\[\](){}|]/
            ContainsAny(str, {"[", "]", "(", ")", "{", "}", "|"})
      [] rule.name = "noWholeRoot" ->                            \* /^\.\/$/
            str = <<".", "/">>
      [] rule.name = "rejectAll" ->                              \* /.+/
            Len(str) >= 1

\* The rules in force were an empty mapping falsy as a missing argument is.
ActiveRulesEmptyIsDefault(rules) ==
    IF rules.given /\ rules.rules # <<>> THEN rules.rules ELSE invalidGlobRules

\* rules || gpii.glob.invalidGlobRules: only a missing argument is falsy, an
\* empty mapping is kept.
ActiveRules(rules) == IF rules.given THEN rules.rules ELSE invalidGlobRules

validatePattern(pattern, rules) ==
    LET matched == SelectSeq(ActiveRules(rules),
                             LAMBDA rule : RuleMatches(rule, positivePattern(pattern)))
    IN [i \in 1..Len(matched) |->
            [glob |-> positivePattern(pattern), error |-> matched[i].message]]

RECURSIVE validatePatternArray(_, _)
validatePatternArray(patternArray, rules) ==
    IF Len(patternArray) = 0 THEN <<>>
    ELSE validatePattern(patternArray[1], rules)
            \o validatePatternArray(Tail(patternArray), rules)

\* The lines logInvalidRuleFeedback passes to fluid.log, one per violation.
logInvalidRuleFeedback(violations) ==
    [i \in 1..Len(violations) |->
        [op |-> "log", glob |-> violations[i].glob, error |-> violations[i].error]]

(***************************************************************************)
(* Rooting (sanitisePath, addPathToPatterns)                               *)
(***************************************************************************)

sanitisePath(rawPath) ==
    IF ContainsAny(rawPath, {":", "\\"})
    THEN LET pathSegments == SplitRuns(rawPath, {"/", "\\"})
             isDrive      == /\ Len(pathSegments[1]) = 2
                             /\ IsLetter(pathSegments[1][1])
                             /\ pathSegments[1][2] = ":"
             firstSegment == IF isDrive THEN <<>> ELSE pathSegments[1]
         IN Join(<<firstSegment>> \o Tail(pathSegments), <<"/">>)
    ELSE rawPath

\* The callback addPathToPatterns hands to fluid.transform.
addPathToPattern(sanitisedPath, pattern) ==
    LET positive        == positivePattern(pattern)
        isNegated       == positive # pattern
        patternSegments == Split(positive, "/")
        isFullPath      == patternSegments[1] = <<>>
        firstSegment    == IF isFullPath THEN <<"/">> \o patternSegments[2]
                           ELSE patternSegments[1]
        remaining       == SubSeq(patternSegments, IF isFullPath THEN 3 ELSE 2,
                                  Len(patternSegments))
        resolvedPath    == PosixResolve(<<sanitisedPath, firstSegment,
                                          Join(remaining, <<"/">>)>>)
    IN IF Len(patternSegments) > 1
       THEN (IF isNegated THEN <<"!">> ELSE <<>>) \o resolvedPath
       ELSE pattern

addPathToPatterns(rootPath, patterns) ==
    [i \in 1..Len(patterns) |-> addPathToPattern(sanitisePath(rootPath), patterns[i])]

(***************************************************************************)
(* Matching (dirMightMatch, matchesSinglePattern) and the path-set filter  *)
(***************************************************************************)

\* The loop bounded by the shorter of the two segment lists: a directory
\* deeper than the pattern is long passes.
RECURSIVE DirSegmentsMatchPrefix(_, _, _)
DirSegmentsMatchPrefix(pathSegments, patternSegments, a) ==
    IF a > Len(pathSegments) \/ a > Len(patternSegments) THEN TRUE
    ELSE IF patternSegments[a] = <<"*", "*">> THEN TRUE
    ELSE IF pathSegments[a] # patternSegments[a] THEN FALSE
    ELSE DirSegmentsMatchPrefix(pathSegments, patternSegments, a + 1)

\* The for loop of dirMightMatch from index a (1-based); a pattern segment
\* past the end of the pattern is undefined, which differs from every
\* path segment.
RECURSIVE DirSegmentsMatch(_, _, _)
DirSegmentsMatch(pathSegments, patternSegments, a) ==
    IF a > Len(pathSegments) THEN TRUE
    ELSE IF a <= Len(patternSegments) /\ patternSegments[a] = <<"*", "*">> THEN TRUE
    ELSE IF a > Len(patternSegments) \/ pathSegments[a] # patternSegments[a] THEN FALSE
    ELSE DirSegmentsMatch(pathSegments, patternSegments, a + 1)

dirMightMatch(pathToDir, pattern) ==
    IF ContainsAny(pattern, {"/"})
    THEN DirSegmentsMatch(Split(pathToDir, "/"), Split(pattern, "/"), 1)
    ELSE TRUE

\* minimatchOptions || {}
OptionsOrEmpty(minimatchOptions) ==
    IF minimatchOptions.given THEN minimatchOptions
    ELSE [given |-> TRUE, dot |-> FALSE, matchBase |-> FALSE]

matchesSinglePattern(pathToMatch, pattern, minimatchOptions, isDir) ==
    IF isDir THEN dirMightMatch(pathToMatch, pattern)
    ELSE minimatch(pathToMatch, pattern, OptionsOrEmpty(minimatchOptions))

\* fluid.find with a callback returning (match || undefined): some element
\* of the list matches.
FindMatch(patterns, singlePath, minimatchOptions, isDir) ==
    \E i \in 1..Len(patterns) :
        matchesSinglePattern(singlePath, patterns[i], minimatchOptions, isDir)

\* filterPaths with the excludes tested before the negated excludes.
filterAllowsExcludeFirst(singlePath, isDir, includes, excludes, minimatchOptions) ==
    /\ FindMatch(positivePatterns(includes), singlePath, minimatchOptions, isDir)
    /\ ~FindMatch(negativePatterns(includes) \o positivePatterns(excludes),
                  singlePath, minimatchOptions, FALSE)

\* filterPaths with the negated includes left out of combinedExcludes.
filterAllowsPlainExcludes(singlePath, isDir, includes, excludes, minimatchOptions) ==
    /\ FindMatch(positivePatterns(includes), singlePath, minimatchOptions, isDir)
    /\ \/ FindMatch(negativePatterns(excludes), singlePath, minimatchOptions, isDir)
       \/ ~FindMatch(positivePatterns(excludes), singlePath, minimatchOptions, FALSE)

\* filterPaths with the negated excludes tested before the positive includes.
filterAllowsRescueFirst(singlePath, isDir, includes, excludes, minimatchOptions) ==
    \/ FindMatch(negativePatterns(excludes), singlePath, minimatchOptions, isDir)
    \/ /\ FindMatch(positivePatterns(includes), singlePath, minimatchOptions, isDir)
       /\ ~FindMatch(negativePatterns(includes) \o positivePatterns(excludes),
                     singlePath, minimatchOptions, FALSE)

\* filterPaths with isDir handed on for the combined excludes too.
filterAllowsRelaxedExcludes(singlePath, isDir, includes, excludes, minimatchOptions) ==
    /\ FindMatch(positivePatterns(includes), singlePath, minimatchOptions, isDir)
    /\ \/ FindMatch(negativePatterns(excludes), singlePath, minimatchOptions, isDir)
       \/ ~FindMatch(negativePatterns(includes) \o positivePatterns(excludes),
                     singlePath, minimatchOptions, isDir)

\* The body of filterPaths' loop for one entry whose stat succeeded: is the
\* entry pushed onto matchingPaths?
filterAllows(singlePath, isDir, includes, excludes, minimatchOptions) ==
    LET matchesPositiveInclude ==
            FindMatch(positivePatterns(includes), singlePath, minimatchOptions, isDir)
        matchesNegatedExclude ==
            FindMatch(negativePatterns(excludes), singlePath, minimatchOptions, isDir)
        combinedExcludes == negativePatterns(includes) \o positivePatterns(excludes)
        matchesExclude ==
            FindMatch(combinedExcludes, singlePath, minimatchOptions, FALSE)
    IN IF matchesPositiveInclude
       THEN IF matchesNegatedExclude THEN TRUE ELSE ~matchesExclude
       ELSE FALSE

\* filterPaths with an entry whose stat throws skipped instead of the
\* exception leaving the loop.
RECURSIVE filterLoopSkipsFailedStat(_, _, _, _, _, _, _)
filterLoopSkipsFailedStat(fs, dirPaths, i, includes, excludes, minimatchOptions, acc) ==
    IF i > Len(dirPaths) THEN acc
    ELSE LET singlePath == dirPaths[i]
             call == [op |-> "stat", path |-> singlePath, ok |-> ~StatThrows(fs, singlePath)]
             kept == /\ ~StatThrows(fs, singlePath)
                     /\ filterAllows(singlePath, IsDirectory(fs, singlePath),
                                     includes, excludes, minimatchOptions)
         IN filterLoopSkipsFailedStat(fs, dirPaths, i + 1, includes, excludes,
                minimatchOptions,
                [ok    |-> TRUE,
                 paths |-> IF kept THEN Append(acc.paths, singlePath) ELSE acc.paths,
                 calls |-> Append(acc.calls, call)])

\* filterPaths pushing an allowed entry once for every positive include
\* that matches it, as a loop over the includes would.
RECURSIVE filterLoopPushesPerInclude(_, _, _, _, _, _, _)
filterLoopPushesPerInclude(fs, dirPaths, i, includes, excludes, minimatchOptions, acc) ==
    IF i > Len(dirPaths) THEN acc
    ELSE LET singlePath == dirPaths[i]
             call == [op |-> "stat", path |-> singlePath, ok |-> ~StatThrows(fs, singlePath)]
             matching == {k \in 1..Len(positivePatterns(includes)) :
                            matchesSinglePattern(singlePath, positivePatterns(includes)[k],
                                                 minimatchOptions,
                                                 IsDirectory(fs, singlePath))}
             pushes == IF filterAllows(singlePath, IsDirectory(fs, singlePath),
                                       includes, excludes, minimatchOptions)
                       THEN Cardinality(matching) ELSE 0
         IN IF StatThrows(fs, singlePath)
            THEN [ok |-> FALSE, paths |-> <<>>, calls |-> Append(acc.calls, call)]
            ELSE filterLoopPushesPerInclude(fs, dirPaths, i + 1, includes, excludes,
                    minimatchOptions,
                    [ok    |-> TRUE,
                     paths |-> acc.paths \o [k \in 1..pushes |-> singlePath],
                     calls |-> Append(acc.calls, call)])

\* filterPaths from entry i on.  acc is [ok, paths, calls]: the entries
\* allowed so far, the file-system calls made, and whether all succeeded.
RECURSIVE filterLoop(_, _, _, _, _, _, _)
filterLoop(fs, dirPaths, i, includes, excludes, minimatchOptions, acc) ==
    IF i > Len(dirPaths) THEN acc
    ELSE LET singlePath == dirPaths[i]
             call == [op |-> "stat", path |-> singlePath, ok |-> ~StatThrows(fs, singlePath)]
         IN IF StatThrows(fs, singlePath)
            THEN [ok |-> FALSE, paths |-> <<>>, calls |-> Append(acc.calls, call)]
            ELSE filterLoop(fs, dirPaths, i + 1, includes, excludes, minimatchOptions,
                    [ok    |-> TRUE,
                     paths |-> IF filterAllows(singlePath, IsDirectory(fs, singlePath),
                                               includes, excludes, minimatchOptions)
                               THEN Append(acc.paths, singlePath)
                               ELSE acc.paths,
                     calls |-> Append(acc.calls, call)])

filterPaths(fs, dirPaths, includes, excludes, minimatchOptions) ==
    filterLoop(fs, dirPaths, 1, includes, excludes, minimatchOptions,
               [ok |-> TRUE, paths |-> <<>>, calls |-> <<>>])

(***************************************************************************)
(* The recursive scanner (scanSingleDir)                                   *)
(***************************************************************************)

\* The loop with a plain else for the else if: every entry that is not a
\* directory is pushed.
scanKeepsAnyEntry(fs, singlePath) == TRUE

\* What the loop over allowedPaths does with an entry that is not a
\* directory: push it when it is a regular file.
scanKeepsEntry(fs, singlePath) == IsFile(fs, singlePath)

\* scanSingleDir returns [ok, files, calls]: ok is FALSE when a file-system
\* call threw (the exception leaves every caller, no list is returned);
\* calls are the file-system calls in the order they were made, each
\* completed call of filterPaths being noted after its stat calls with the
\* entries it was given and the entries it returned.
RECURSIVE scanSingleDir(_, _, _, _, _)
RECURSIVE scanLoop(_, _, _, _, _, _, _)
\* scanSingleDir with the loop run over dirPaths, not allowedPaths.
scanSingleDirUnfiltered(fs, dirPath, includes, excludes, minimatchOptions) ==
    LET listing == [op |-> "readdir", path |-> dirPath, ok |-> ~ReaddirThrows(fs, dirPath)]
    IN IF ReaddirThrows(fs, dirPath)
       THEN [ok |-> FALSE, files |-> <<>>, calls |-> <<listing>>]
       ELSE LET dirPaths == SortStrings({PosixResolve(<<dirPath, subPath>>) :
                                            subPath \in ReaddirNames(fs, dirPath)})
                allowed  == filterPaths(fs, dirPaths, includes, excludes, minimatchOptions)
            IN IF ~allowed.ok
               THEN [ok |-> FALSE, files |-> <<>>, calls |-> <<listing>> \o allowed.calls]
               ELSE scanLoop(fs, dirPaths, 1, includes, excludes, minimatchOptions,
                             [ok |-> TRUE, files |-> <<>>,
                              calls |-> <<listing>> \o allowed.calls
                                          \o <<[op |-> "filter", path |-> dirPath,
                                                entries |-> dirPaths,
                                                allowed |-> allowed.paths]>>])

scanSingleDir(fs, dirPath, includes, excludes, minimatchOptions) ==
    LET listing == [op |-> "readdir", path |-> dirPath, ok |-> ~ReaddirThrows(fs, dirPath)]
    IN IF ReaddirThrows(fs, dirPath)
       THEN [ok |-> FALSE, files |-> <<>>, calls |-> <<listing>>]
       ELSE LET dirPaths == SortStrings({PosixResolve(<<dirPath, subPath>>) :
                                            subPath \in ReaddirNames(fs, dirPath)})
                allowed  == filterPaths(fs, dirPaths, includes, excludes, minimatchOptions)
            IN IF ~allowed.ok
               THEN [ok |-> FALSE, files |-> <<>>, calls |-> <<listing>> \o allowed.calls]
               ELSE scanLoop(fs, allowed.paths, 1, includes, excludes, minimatchOptions,
                             [ok |-> TRUE, files |-> <<>>,
                              calls |-> <<listing>> \o allowed.calls
                                          \o <<[op |-> "filter", path |-> dirPath,
                                                entries |-> dirPaths,
                                                allowed |-> allowed.paths]>>])

\* The fluid.each over allowedPaths from entry i on; acc.files is
\* matchingPaths.
scanLoop(fs, allowedPaths, i, includes, excludes, minimatchOptions, acc) ==
    IF i > Len(allowedPaths) THEN acc
    ELSE LET singlePath == allowedPaths[i]
             call == [op |-> "stat", path |-> singlePath, ok |-> ~StatThrows(fs, singlePath)]
             sub  == scanSingleDir(fs, singlePath, includes, excludes, minimatchOptions)
         IN IF StatThrows(fs, singlePath)
            THEN [ok |-> FALSE, files |-> <<>>, calls |-> Append(acc.calls, call)]
            ELSE IF IsDirectory(fs, singlePath)
            THEN IF ~sub.ok
                 THEN [ok |-> FALSE, files |-> <<>>,
                       calls |-> Append(acc.calls, call) \o sub.calls]
                 ELSE scanLoop(fs, allowedPaths, i + 1, includes, excludes, minimatchOptions,
                               [ok |-> TRUE, files |-> acc.files \o sub.files,
                                calls |-> Append(acc.calls, call) \o sub.calls])
            ELSE scanLoop(fs, allowedPaths, i + 1, includes, excludes, minimatchOptions,
                          [ok |-> TRUE,
                           files |-> IF scanKeepsEntry(fs, singlePath)
                                     THEN Append(acc.files, singlePath)
                                     ELSE acc.files,
                           calls |-> Append(acc.calls, call)])

(***************************************************************************)
(* Inputs of the bounded check                                             *)
(***************************************************************************)

\* The most patterns one call of findFiles is given, includes and excludes
\* together.
MaxPatterns == 3

\* Patterns as a caller writes them.
IncDeep      == <<".", "/", "s", "/", "*", "*", "/", "*", ".", "j">>            \* ./s/**/*.j
IncStarDir   == <<".", "/", "*", "/", "a", ".", "j">>                           \* ./*/a.j
IncBare      == <<"a", ".", "j">>                                               \* a.j
IncInvalid   == <<".", "/", "*", "*">>                                          \* ./**
NotDeeper    == <<"!", ".", "/", "s", "/", "*", "*", "/", "e", "/", "*", ".", "j">>  \* !./s/**/e/*.j
NotNotDeeper == <<"!">> \o NotDeeper                                            \* !!./s/**/e/*.j
ExcDeeper    == Tail(NotDeeper)                                                 \* ./s/**/e/*.j
ExcDir       == <<".", "/", "s", "/", "d">>                                     \* ./s/d
ExcInvalid   == <<".", ".", "/", "(", "a">>                                     \* ../(a
NotDeep      == <<"!">> \o IncDeep                                              \* !./s/**/*.j

IncludePool == {IncDeep, IncStarDir, IncBare, IncInvalid, NotDeeper, NotNotDeeper}

ExcludePool == {ExcDeeper, ExcDir, ExcInvalid, NotDeep, NotDeeper}

\* All lists of length n over S.
ListsOf(S, n) == [1..n -> S]

\* File trees under /r.
P(segments) == Join(segments, <<"/">>)

TreeSrc ==
    LET r == <<>>  s == <<"s">>  d == <<"d">>  e == <<"e">>  f == <<"a", ".", "j">>
    IN (P(<<r, <<"r">>>>)             :> "dir")
    @@ (P(<<r, <<"r">>, f>>)          :> "file")
    @@ (P(<<r, <<"r">>, s>>)          :> "dir")
    @@ (P(<<r, <<"r">>, s, f>>)       :> "file")
    @@ (P(<<r, <<"r">>, s, d>>)       :> "dir")
    @@ (P(<<r, <<"r">>, s, <<"d", "-", ".", "j">>>>) :> "file")
    @@ (P(<<r, <<"r">>, s, d, f>>)    :> "file")
    @@ (P(<<r, <<"r">>, s, d, e>>)    :> "dir")
    @@ (P(<<r, <<"r">>, s, d, e, f>>) :> "file")

TreeOdd ==
    LET r == <<>>  s == <<"s">>  d == <<"d">>  e == <<"e">>  f == <<"a", ".", "j">>
    IN (P(<<r, <<"r">>>>)             :> "dir")
    @@ (P(<<r, <<"r">>, e>>)          :> "locked")
    @@ (P(<<r, <<"r">>, s>>)          :> "dir")
    @@ (P(<<r, <<"r">>, s, f>>)       :> "file")
    @@ (P(<<r, <<"r">>, s, <<"x", ".", "j">>>>) :> "other")
    @@ (P(<<r, <<"r">>, s, d>>)       :> "dir")
    @@ (P(<<r, <<"r">>, s, d, <<"b">>>>) :> "broken")

Trees == {TreeSrc, TreeOdd}

\* The scan root as a caller names it: the directory of package p.
RootPaths == {<<"%", "p">>}

\* An optional argument is a record whose field given tells whether the
\* caller passed it.
Undefined == [given |-> FALSE]

OptionsPool == {Undefined, [given |-> TRUE, dot |-> FALSE, matchBase |-> TRUE]}

RulesPool == {Undefined, [given |-> TRUE, rules |-> <<rejectAll>>]}

(***************************************************************************)
(* State: one call of an exported function                                 *)
(***************************************************************************)

VARIABLES
    fn,        \* the function called
    args,      \* its arguments
    fs,        \* the file system the call runs against
    pc,        \* where the call is: "call", "rooted" (findFiles), "done"
    pathed,    \* findFiles: resolvedPath, pathedIncludes, pathedExcludes
    events,    \* log lines, the fatal failure and file-system calls, in order
    outcome,   \* "pending", "returned", "failed" (fluid.fail), "threw" (fs)
    result     \* the value returned

vars == <<fn, args, fs, pc, pathed, events, outcome, result>>

NoFs == <<>>

NotPathed == [resolvedPath |-> <<>>, includes |-> <<>>, excludes |-> <<>>]

(***************************************************************************)
(* findFiles                                                               *)
(***************************************************************************)

Init ==
    /\ fn = "findFiles"
    /\ \E ni \in 0..MaxPatterns : \E ne \in 0..(MaxPatterns - ni) :
       \E includes \in ListsOf(IncludePool, ni), excludes \in ListsOf(ExcludePool, ne),
          rootPath \in RootPaths, minimatchOptions \in OptionsPool, rules \in RulesPool :
            args = [rootPath |-> rootPath, includes |-> includes, excludes |-> excludes,
                    minimatchOptions |-> minimatchOptions, rules |-> rules]
    /\ fs \in Trees
    /\ pc = "call"
    /\ pathed = NotPathed
    /\ events = <<>>
    /\ outcome = "pending"
    /\ result = <<>>

\* The diagnostic of line 37.
FailMessage == "One or more glob patterns you have entered are invalid.  Cannot continue."

\* Lines 27-38: the violations of both lists; when there are any, the
\* lines logged and the fatal failure of fluid.fail, which throws.
findFilesViolations(a) ==
    [includes |-> validatePatternArray(a.includes, a.rules),
     excludes |-> validatePatternArray(a.excludes, a.rules)]

findFilesIsInvalid(a) ==
    Len(findFilesViolations(a).includes) > 0 \/ Len(findFilesViolations(a).excludes) > 0

\* The feedback with the excludes' violations logged only when the includes
\* have none.
findFilesFeedbackEitherList(a) ==
    (IF Len(findFilesViolations(a).includes) > 0
     THEN logInvalidRuleFeedback(findFilesViolations(a).includes)
     ELSE logInvalidRuleFeedback(findFilesViolations(a).excludes))
    \o <<[op |-> "fail", message |-> FailMessage]>>

findFilesFeedback(a) ==
    (IF Len(findFilesViolations(a).includes) > 0
     THEN logInvalidRuleFeedback(findFilesViolations(a).includes) ELSE <<>>)
    \o (IF Len(findFilesViolations(a).excludes) > 0
        THEN logInvalidRuleFeedback(findFilesViolations(a).excludes) ELSE <<>>)
    \o <<[op |-> "fail", message |-> FailMessage]>>

\* Lines 40-42: the sanitised root and both lists rooted at it.
findFilesPathed(a) ==
    LET resolvedPath == sanitisePath(ResolvePath(a.rootPath))
    IN [resolvedPath |-> resolvedPath,
        includes |-> addPathToPatterns(resolvedPath, a.includes),
        excludes |-> addPathToPatterns(resolvedPath, a.excludes)]

\* Line 43: the recursive scan of the rooted patterns pp.
findFilesScanned(fileSystem, pp, a) ==
    scanSingleDir(fileSystem, pp.resolvedPath, pp.includes, pp.excludes, a.minimatchOptions)

\* findFiles as a function of its arguments and the file system: how the
\* call ends, the list returned, and what it logged and called.
findFiles(fileSystem, a) ==
    IF findFilesIsInvalid(a)
    THEN [outcome |-> "failed", result |-> <<>>, events |-> findFilesFeedback(a)]
    ELSE LET scan == findFilesScanned(fileSystem, findFilesPathed(a), a)
         IN [outcome |-> IF scan.ok THEN "returned" ELSE "threw",
             result  |-> scan.files,
             events  |-> scan.calls]

\* findFiles with an invalid pattern (lines 27-38).
findFilesInvalid ==
    /\ fn = "findFiles" /\ pc = "call"
    /\ findFilesIsInvalid(args)
    /\ events' = findFilesFeedback(args)
    /\ outcome' = "failed"
    /\ pc' = "done"
    /\ UNCHANGED <<fn, args, fs, pathed, result>>

\* findFiles with valid patterns, up to the call of the scanner (lines 27-42).
findFilesRoot ==
    /\ fn = "findFiles" /\ pc = "call"
    /\ ~findFilesIsInvalid(args)
    /\ pathed' = findFilesPathed(args)
    /\ pc' = "rooted"
    /\ UNCHANGED <<fn, args, fs, events, outcome, result>>

\* The scan and the return (line 43): the list is returned unless a
\* file-system call threw.
findFilesScan ==
    LET scan == findFilesScanned(fs, pathed, args)
    IN /\ fn = "findFiles" /\ pc = "rooted"
       /\ events' = events \o scan.calls
       /\ outcome' = IF scan.ok THEN "returned" ELSE "threw"
       /\ result' = scan.files
       /\ pc' = "done"
       /\ UNCHANGED <<fn, args, fs, pathed>>

Next == findFilesInvalid \/ findFilesRoot \/ findFilesScan

Spec == Init /\ [][Next]_vars

(***************************************************************************)
(* Calls of the functions beneath findFiles, each on inputs drawn from a   *)
(* bounded set                                                             *)
(***************************************************************************)

\* All strings of at most n characters of the set chars.
StringsUpTo(chars, n) == UNION {[1..k -> chars] : k \in 0..n}

\* A call that touches neither the file system nor the log.
PureCall(name, arguments) ==
    /\ fn = name
    /\ args = arguments
    /\ fs = NoFs
    /\ pc = "call"
    /\ pathed = NotPathed
    /\ events = <<>>
    /\ outcome = "pending"
    /\ result = <<>>

Return(value) ==
    /\ pc = "call"
    /\ result' = value
    /\ outcome' = "returned"
    /\ pc' = "done"
    /\ UNCHANGED <<fn, args, fs, pathed, events>>

\* validatePattern ---------------------------------------------------------

\* The longest pattern validatePattern is given.
MaxValidateLen == 4

RegexpChars == {"[", "]", "(", ")", "{", "}", "|"}

\* Patterns over the characters the rules look at, with at most one kind of
\* regular-expression character in a pattern.
ValidatePatterns ==
    UNION {StringsUpTo({"!", ".", "/", "*", "\\", "a", c}, MaxValidateLen) : c \in RegexpChars}

EmptyRules == [given |-> TRUE, rules |-> <<>>]

InitValidate ==
    \E pattern \in ValidatePatterns, rules \in {Undefined, EmptyRules} :
        PureCall("validatePattern", [pattern |-> pattern, rules |-> rules])

callValidatePattern ==
    /\ fn = "validatePattern"
    /\ Return(validatePattern(args.pattern, args.rules))

NextValidate == callValidatePattern

SpecValidate == InitValidate /\ [][NextValidate]_vars

\* dirMightMatch -----------------------------------------------------------

\* The deepest directory and the longest pattern (in segments) given to
\* dirMightMatch.
MaxDirDepth == 2

MaxPatternSegments == 3

\* "/" + the segments joined by "/".
Rooted(segments) == <<"/">> \o Join(segments, <<"/">>)

DirNames == {<<"a">>, <<"b">>}

DirPaths == {Rooted(segments) : segments \in UNION {[1..k -> DirNames] : k \in 1..MaxDirDepth}}

SegmentPatterns == DirNames \cup {<<"*">>, <<"*", "*">>}

DirPatterns ==
    {Rooted(segments) :
        segments \in UNION {[1..k -> SegmentPatterns] : k \in 1..MaxPatternSegments}}
    \cup {<<"a">>, <<"*">>}

InitDirMightMatch ==
    \E pathToDir \in DirPaths, pattern \in DirPatterns :
        PureCall("dirMightMatch", [pathToDir |-> pathToDir, pattern |-> pattern])

callDirMightMatch ==
    /\ fn = "dirMightMatch"
    /\ Return(dirMightMatch(args.pathToDir, args.pattern))

NextDirMightMatch == callDirMightMatch

SpecDirMightMatch == InitDirMightMatch /\ [][NextDirMightMatch]_vars

\* positivePatterns, negativePatterns, addPathToPatterns --------------------

\* The most characters a pattern list holds, counting one for each boundary
\* between two patterns.
MaxListChars == 5

\* Every list of patterns over "!", "/", "." and "a" within that size: the
\* pieces of a string cut at its commas.
PatternLists ==
    {<<>>} \cup {Split(str, ",") : str \in StringsUpTo({"!", "/", ".", "a", ","}, MaxListChars)}

\* Scan roots: a POSIX path, a Windows path with a drive letter, the
\* file-system root.
PatternRoots == {<<"/", "r">>, <<"c", ":", "\\", "r">>, <<"/">>}

InitPatterns ==
    \E patterns \in PatternLists :
        \/ PureCall("classify", [patterns |-> patterns])
        \/ \E rootPath \in PatternRoots :
            PureCall("addPathToPatterns", [rootPath |-> rootPath, patterns |-> patterns])

\* positivePatterns and then negativePatterns on the same list, as the unit
\* tests call them.
callPositivePatterns ==
    /\ fn = "classify" /\ pc = "call"
    /\ result' = [positive |-> positivePatterns(args.patterns)]
    /\ pc' = "half"
    /\ UNCHANGED <<fn, args, fs, pathed, events, outcome>>

callNegativePatterns ==
    /\ fn = "classify" /\ pc = "half"
    /\ result' = [positive |-> result.positive, negative |-> negativePatterns(args.patterns)]
    /\ outcome' = "returned"
    /\ pc' = "done"
    /\ UNCHANGED <<fn, args, fs, pathed, events>>

callAddPathToPatterns ==
    /\ fn = "addPathToPatterns"
    /\ Return(addPathToPatterns(args.rootPath, args.patterns))

NextPatterns == callPositivePatterns \/ callNegativePatterns \/ callAddPathToPatterns

SpecPatterns == InitPatterns /\ [][NextPatterns]_vars


\* positivePattern ----------------------------------------------------------

InitPositivePattern ==
    \E pattern \in ValidatePatterns : PureCall("positivePattern", [pattern |-> pattern])

\* positivePattern on the pattern, then on what that call returned.
callPositivePattern ==
    /\ fn = "positivePattern" /\ pc = "call"
    /\ result' = [once |-> positivePattern(args.pattern)]
    /\ pc' = "half"
    /\ UNCHANGED <<fn, args, fs, pathed, events, outcome>>

callPositivePatternAgain ==
    /\ fn = "positivePattern" /\ pc = "half"
    /\ result' = [once |-> result.once, twice |-> positivePattern(result.once)]
    /\ outcome' = "returned"
    /\ pc' = "done"
    /\ UNCHANGED <<fn, args, fs, pathed, events>>

NextPositivePattern == callPositivePattern \/ callPositivePatternAgain

SpecPositivePattern == InitPositivePattern /\ [][NextPositivePattern]_vars

(***************************************************************************)
(* Properties of findFiles                                                 *)
(***************************************************************************)

\* Is str[i..] led by the characters of pre?
LedBy(str, pre) ==
    Len(str) >= Len(pre) /\ \A i \in 1..Len(pre) : str[i] = pre[i]

Done == fn = "findFiles" /\ pc = "done"

Returned == Done /\ outcome = "returned"

\* The positive patterns of a list, and its negated patterns without their
\* marker, read off the list itself.
PositiveOf(list) ==
    {list[i] : i \in {k \in 1..Len(list) : ~(Len(list[k]) > 0 /\ list[k][1] = "!")}}

NegatedOf(list) ==
    {Tail(list[i]) : i \in {k \in 1..Len(list) : Len(list[k]) > 0 /\ list[k][1] = "!"}}

\* Exact (file-style) matching of a path under the call's options.
ExactMatch(path, pattern) ==
    minimatch(path, pattern, OptionsOrEmpty(args.minimatchOptions))

MatchesSome(path, patterns) == \E pattern \in patterns : ExactMatch(path, pattern)

\* The membership rule applied to one path alone, with exact matching.
RuleAdmits(path) ==
    /\ MatchesSome(path, PositiveOf(pathed.includes))
    /\ \/ MatchesSome(path, NegatedOf(pathed.excludes))
       \/ ~MatchesSome(path, NegatedOf(pathed.includes) \cup PositiveOf(pathed.excludes))

FilesUnderRoot == {q \in DOMAIN fs : fs[q] = "file"}

ResultSet == {result[i] : i \in 1..Len(result)}

FsCalls == {i \in 1..Len(events) : events[i].op \in {"readdir", "stat"}}

\* C1: under default validation, the list findFiles returns holds exactly
\* the files under the root that the membership rule, applied to each file
\* alone with exact matching, admits.
C1_ScanEqualsFilteredEnumeration ==
    (Returned /\ ~args.rules.given) =>
        ResultSet = {f \in FilesUnderRoot : RuleAdmits(f)}

\* C3: every file under the root that matches a positive include and a
\* negated exclude is in the list findFiles returns, whatever else is
\* supplied.
C3_NegatedExcludeAlwaysWins ==
    Returned =>
        \A f \in FilesUnderRoot :
            (/\ MatchesSome(f, PositiveOf(pathed.includes))
             /\ MatchesSome(f, NegatedOf(pathed.excludes))) => f \in ResultSet

\* The rules in force for the call, and the violations of a list counted
\* pattern by pattern and rule by rule.
RulesInForce == IF args.rules.given THEN args.rules.rules ELSE invalidGlobRules

PositiveForm(pattern) ==
    IF Len(pattern) > 0 /\ pattern[1] = "!" THEN Tail(pattern) ELSE pattern

ViolationsOf(list) ==
    {v \in (1..Len(list)) \X (1..Len(RulesInForce)) :
        RuleMatches(RulesInForce[v[2]], PositiveForm(list[v[1]]))}

HasViolation == ViolationsOf(args.includes) # {} \/ ViolationsOf(args.excludes) # {}

\* The entry a filter event accepts, by the rule of filterPaths: directories
\* are tested against positive includes and negated excludes with the
\* directory pre-check, everything else exactly.
EntryMatches(entry, patterns, asDir) ==
    \E pattern \in patterns :
        IF asDir THEN dirMightMatch(entry, pattern) ELSE ExactMatch(entry, pattern)

FilterAccepts(entry) ==
    LET asDir == fs[entry] \in {"dir", "locked"}
    IN /\ EntryMatches(entry, PositiveOf(pathed.includes), asDir)
       /\ \/ EntryMatches(entry, NegatedOf(pathed.excludes), asDir)
          \/ ~EntryMatches(entry, NegatedOf(pathed.includes) \cup PositiveOf(pathed.excludes),
                           FALSE)

FilterEvents == {i \in 1..Len(events) : events[i].op = "filter"}

AsExclude ==
    findFiles(fs, [args EXCEPT
                     !.includes = SubSeq(args.includes, 1, Len(args.includes) - 1),
                     !.excludes = Append(args.excludes,
                                         Tail(args.includes[Len(args.includes)]))])

LastIncludeNegated ==
    /\ Len(args.includes) > 0
    /\ Len(args.includes[Len(args.includes)]) > 0
    /\ args.includes[Len(args.includes)][1] = "!"

\* C4 as claimed: for every pattern p, findFiles(I + ["!" + p], E) ends as
\* findFiles(I, E + [p]) does, with the same list.
C4_NegatedIncludeIsExclude ==
    (Done /\ LastIncludeNegated) =>
        (AsExclude.outcome = outcome /\ AsExclude.result = result)

\* C4 amended: the same for every pattern p that is not itself negated.
C4_PositiveNegatedIncludeIsExclude ==
    (Done /\ LastIncludeNegated /\ args.includes[Len(args.includes)][2] # "!") =>
        (AsExclude.outcome = outcome /\ AsExclude.result = result)

\* A call whose last include "!" + p, p positive, removed a file that the
\* other includes brought in.
C4_Witness ==
    /\ Returned /\ LastIncludeNegated /\ args.includes[Len(args.includes)][2] # "!"
    /\ result # <<>>
    /\ \E f \in FilesUnderRoot :
        /\ f \notin ResultSet
        /\ MatchesSome(f, PositiveOf(pathed.includes))
        /\ MatchesSome(f, NegatedOf(pathed.includes))

\* C5: a call whose include list holds no positive pattern returns the
\* empty list whenever its patterns are valid and nothing at the root is
\* unreadable; it never has anything but the empty list to return.
RootLevelSound ==
    /\ ~ReaddirThrows(fs, PackageDir)
    /\ \A name \in ReaddirNames(fs, PackageDir) :
        ~StatThrows(fs, PackageDir \o <<"/">> \o name)

C5_NoPositiveIncludeNoResult ==
    (Done /\ PositiveOf(args.includes) = {}) =>
        /\ result = <<>>
        /\ (~HasViolation /\ RootLevelSound) => outcome = "returned"

\* A returned call with only negated includes and a negated exclude that
\* matches a file of the tree.
C5_Witness ==
    /\ Returned
    /\ args.includes # <<>> /\ PositiveOf(args.includes) = {}
    /\ \E f \in FilesUnderRoot : MatchesSome(f, NegatedOf(pathed.excludes))

\* C6: when a pattern of either list violates a rule in force, the call
\* logs one line per violation of both lists, then fails once with the fixed
\* diagnostic as its last act; it makes no file-system call and returns no
\* list.
C6_ValidationFailsFastAndExhaustively ==
    (fn = "findFiles" /\ HasViolation) =>
        IF pc = "call" THEN events = <<>> /\ outcome = "pending"
        ELSE /\ pc = "done" /\ outcome = "failed" /\ result = <<>>
             /\ FsCalls = {} /\ FilterEvents = {}
             /\ Len(events) = Cardinality(ViolationsOf(args.includes))
                                + Cardinality(ViolationsOf(args.excludes)) + 1
             /\ events[Len(events)] = [op |-> "fail", message |-> FailMessage]
             /\ \A i \in 1..(Len(events) - 1) : events[i].op = "log"
             /\ \A list \in {args.includes, args.excludes} : \A v \in ViolationsOf(list) :
                    \E i \in 1..(Len(events) - 1) :
                        /\ events[i].glob = PositiveForm(list[v[1]])
                        /\ events[i].error = RulesInForce[v[2]].message

\* A failed call with a violation in the includes and a pattern of the
\* excludes that breaks two rules.
C6_Witness ==
    /\ Done /\ outcome = "failed"
    /\ ViolationsOf(args.includes) # {}
    /\ \E v, w \in ViolationsOf(args.excludes) : v[1] = w[1] /\ v[2] # w[2]

\* findFiles with only the includes from place first to place last.
WithIncludes(first, last) ==
    findFiles(fs, [args EXCEPT !.includes = SubSeq(args.includes, first, last)])

ListOf(call) == {call.result[i] : i \in 1..Len(call.result)}

\* The directories above a path.
Ancestors(path) == {SubSeq(path, 1, i - 1) : i \in {k \in 2..Len(path) : path[k] = "/"}}

\* A positive exclude matches the file or a directory above it, and no
\* negated exclude matches the file.
RemovedByExcludes(f) ==
    /\ \E q \in {f} \cup Ancestors(f) : MatchesSome(q, PositiveOf(pathed.excludes))
    /\ ~MatchesSome(f, NegatedOf(pathed.excludes))

\* A file matched by some positive include, whatever its place in the list,
\* that the excludes do not remove is in the list returned.
EveryIncludeCounts ==
    \A f \in FilesUnderRoot :
        (MatchesSome(f, PositiveOf(pathed.includes)) /\ ~RemovedByExcludes(f))
            => f \in ResultSet

\* The list for I1 + I2 holds the list for I1 alone and the list for I2
\* alone, for every way to cut the includes in two.
IncludesMerge ==
    \A k \in 0..Len(args.includes) :
        /\ ListOf(WithIncludes(1, k)) \subseteq ResultSet
        /\ ListOf(WithIncludes(k + 1, Len(args.includes))) \subseteq ResultSet

\* C12: with only positive includes, every file that matches one of them
\* and is not removed by the excludes is in the list findFiles returns, so
\* the list for I1 + I2 holds the lists for I1 and for I2 alone.
C12_MultipleIncludesMerge ==
    (Returned /\ NegatedOf(args.includes) = {}) =>
        EveryIncludeCounts /\ IncludesMerge

\* Did the file system refuse the call an event records?
Refused(event) ==
    IF event.op = "readdir" THEN ReaddirThrows(fs, event.path)
    ELSE StatThrows(fs, event.path)

Scanned == Done /\ outcome \in {"returned", "threw"}

\* C13: every call the file system refuses is the last thing the scan does
\* and ends findFiles with the exception and no list; findFiles ends that
\* way only then, and a scan that returns has taken the stat of every entry
\* of every directory it listed.
C13_FsFailureIsFatal ==
    Scanned =>
        /\ \A i \in FsCalls : events[i].ok <=> ~Refused(events[i])
        /\ \A i \in FsCalls :
            ~events[i].ok => (i = Len(events) /\ outcome = "threw" /\ result = <<>>)
        /\ outcome = "threw" =>
            (Len(events) \in FsCalls /\ ~events[Len(events)].ok)
        /\ outcome = "returned" =>
            \A i \in FsCalls :
                events[i].op = "readdir" =>
                    \A name \in ReaddirNames(fs, events[i].path) :
                        \E j \in FsCalls :
                            /\ j > i /\ events[j].op = "stat"
                            /\ events[j].path = events[i].path \o <<"/">> \o name

\* A scan that found a file the rule admits and then threw on the stat of an
\* entry that matches no include.
C13_Witness ==
    /\ Done /\ outcome = "threw" /\ result = <<>>
    /\ events[Len(events)].op = "stat"
    /\ ~MatchesSome(events[Len(events)].path, PositiveOf(pathed.includes))
    /\ \E i \in FsCalls :
        /\ events[i].op = "stat" /\ fs[events[i].path] = "file"
        /\ RuleAdmits(events[i].path)
        /\ \E j \in FilterEvents : j < i

\* C14: every path of the list findFiles returns is a regular file below
\* the scan root, and the membership rule with exact matching admits it.
C14_ResultsAreAdmittedFiles ==
    Returned =>
        \A f \in ResultSet :
            /\ f \in DOMAIN fs /\ fs[f] = "file"
            /\ LedBy(f, pathed.resolvedPath \o <<"/">>)
            /\ RuleAdmits(f)

\* A returned list beside an entry that the rule admits but that is no
\* regular file, and a directory that was listed.
C14_Witness ==
    /\ Returned /\ result # <<>>
    /\ \E q \in DOMAIN fs : fs[q] = "other" /\ RuleAdmits(q) /\ q \notin ResultSet
    /\ \E i \in FsCalls : events[i].op = "readdir" /\ events[i].path # pathed.resolvedPath

\* The directory entries a filter event was given, those it returned, and
\* the two ways to match a directory against a set of patterns.
DirEntries(event) ==
    {event.entries[k] : k \in {n \in 1..Len(event.entries) :
                                    fs[event.entries[n]] \in {"dir", "locked"}}}

AllowedOf(event) == {event.allowed[k] : k \in 1..Len(event.allowed)}

Relaxed(dir, patterns) == \E pattern \in patterns : dirMightMatch(dir, pattern)

Exact(dir, patterns) == \E pattern \in patterns : ExactMatch(dir, pattern)

\* C15 as claimed: filterPaths tests a directory entry against every
\* pattern of the exclude list, positive or negated, exactly; only the
\* positive includes are tested with dirMightMatch.
C15_ExcludesMatchedExactly ==
    Done =>
        \A i \in FilterEvents : \A dir \in DirEntries(events[i]) :
            dir \in AllowedOf(events[i]) <=>
                /\ Relaxed(dir, PositiveOf(pathed.includes))
                /\ \/ Exact(dir, NegatedOf(pathed.excludes))
                   \/ ~Exact(dir, PositiveOf(pathed.excludes) \cup NegatedOf(pathed.includes))

\* C15 amended: the positive excludes and the negated includes are tested
\* exactly; the negated excludes, like the positive includes, are tested
\* with dirMightMatch.
C15_PlainExcludesMatchedExactly ==
    Done =>
        \A i \in FilterEvents : \A dir \in DirEntries(events[i]) :
            dir \in AllowedOf(events[i]) <=>
                /\ Relaxed(dir, PositiveOf(pathed.includes))
                /\ \/ Relaxed(dir, NegatedOf(pathed.excludes))
                   \/ ~Exact(dir, PositiveOf(pathed.excludes) \cup NegatedOf(pathed.includes))

\* A scan that kept a directory which a positive exclude matches exactly
\* and no negated exclude does, because dirMightMatch holds of it and a
\* negated exclude.
C15_Witness ==
    /\ Done
    /\ \E i \in FilterEvents : \E dir \in DirEntries(events[i]) :
        /\ dir \in AllowedOf(events[i])
        /\ Exact(dir, PositiveOf(pathed.excludes))
        /\ ~Exact(dir, NegatedOf(pathed.excludes))
        /\ Relaxed(dir, NegatedOf(pathed.excludes))

\* The directories a call listed, and findFiles on the same includes with
\* no excludes at all.
ListedBy(trace) ==
    {trace[i].path : i \in {k \in 1..Len(trace) : trace[k].op = "readdir"}}

WithoutExcludes == findFiles(fs, [args EXCEPT !.excludes = <<>>])

DirsOfTree == {q \in DOMAIN fs : fs[q] \in {"dir", "locked"}}

Parent(path) ==
    SubSeq(path, 1, (CHOOSE k \in 1..Len(path) :
                        /\ path[k] = "/"
                        /\ \A n \in (k + 1)..Len(path) : path[n] # "/") - 1)

\* Was the path returned by the call of filterPaths on its directory before
\* event i?
SurvivedBefore(path, i) ==
    \E j \in FilterEvents :
        /\ j < i
        /\ events[j].path = Parent(path)
        /\ path \in AllowedOf(events[j])

Beneath(path, dir) == LedBy(path, dir \o <<"/">>)

\* The entries filterPaths was given and did not return.
Rejected == UNION {{events[j].entries[k] : k \in 1..Len(events[j].entries)}
                        \ AllowedOf(events[j]) : j \in FilterEvents}

\* C18: a directory is listed only when it is the scan root or filterPaths
\* returned it, and every directory between it and the root, at its
\* parent's level; nothing is listed or stat'ed at or beneath an entry the
\* filter rejected, apart from the filter's own stat of that entry.
C18_OnlySurvivorsListed ==
    Scanned =>
        /\ \A i \in FsCalls :
            (events[i].op = "readdir" /\ events[i].path # pathed.resolvedPath) =>
                \A dir \in {events[i].path} \cup Ancestors(events[i].path) :
                    Beneath(dir, pathed.resolvedPath) => SurvivedBefore(dir, i)
        /\ \A i \in FsCalls :
            events[i].op = "stat" =>
                \E j \in FsCalls :
                    /\ j < i /\ events[j].op = "readdir" /\ events[j].ok
                    /\ events[j].path = Parent(events[i].path)
        /\ \A dir \in Rejected : \A i \in FsCalls :
            /\ ~Beneath(events[i].path, dir)
            /\ events[i].path = dir =>
                (events[i].op = "stat" /\ ~SurvivedBefore(dir, i))

\* A scan that returned, listed a directory below the root, and rejected a
\* directory in which a listing or a stat would have failed.
C18_Witness ==
    /\ Returned
    /\ \E i \in FsCalls : events[i].op = "readdir" /\ events[i].path # pathed.resolvedPath
    /\ \E dir \in Rejected : \E q \in DOMAIN fs :
        /\ q = dir \/ Beneath(q, dir)
        /\ fs[q] \in {"broken", "locked"}

\* The order of two paths decided segment by segment: at the first segment
\* in which they differ, by the order of strings.
RECURSIVE SegmentsLess(_, _)
SegmentsLess(a, b) ==
    IF Len(b) = 0 THEN FALSE
    ELSE IF Len(a) = 0 THEN TRUE
    ELSE IF a[1] = b[1] THEN SegmentsLess(Tail(a), Tail(b))
    ELSE StrLess(a[1], b[1])

\* C20 as claimed: the list findFiles returns ascends in the order of the
\* full path strings, the order each listing is sorted in.
C20_ResultSorted ==
    Returned =>
        \A i, j \in 1..Len(result) : i < j => StrLess(result[i], result[j])

\* C20 amended: it ascends in the order of the paths taken segment by
\* segment.
C20_ResultSortedBySegments ==
    Returned =>
        \A i, j \in 1..Len(result) :
            i < j => SegmentsLess(Split(result[i], "/"), Split(result[j], "/"))

\* A list in which a file below a directory stands before a file beside
\* that directory whose full path is the smaller string.
C20_Witness ==
    /\ Returned
    /\ \E i, j \in 1..Len(result) :
        /\ i < j
        /\ StrLess(result[j], result[i])
        /\ Parent(result[j]) \in Ancestors(result[i])

\* C21: no path stands at two places of the list findFiles returns.
C21_NoDuplicates ==
    Returned =>
        \A i, j \in 1..Len(result) : result[i] = result[j] => i = j

\* A returned file that matches a positive include standing at two places
\* of the include list, and a negated exclude.
C21_Witness ==
    /\ Returned
    /\ \E f \in ResultSet :
        /\ \E i, j \in 1..Len(pathed.includes) :
            /\ i # j
            /\ pathed.includes[i] = pathed.includes[j]
            /\ MatchesSome(f, PositiveOf(<<pathed.includes[i]>>))
        /\ MatchesSome(f, NegatedOf(pathed.excludes))

(***************************************************************************)
(* Properties of validatePattern                                           *)
(***************************************************************************)

Called(name) == fn = name /\ pc = "done"

\* The shapes the default rules name, read off the pattern's positive form.
InvalidShape(pattern) ==
    LET form == PositiveForm(pattern)
    IN \/ LedBy(form, <<"*", "*">>)
       \/ LedBy(form, <<".", "/", "*", "*">>)
       \/ \E i \in 1..Len(form) : form[i] = "\\"
       \/ LedBy(form, <<".", ".">>)
       \/ \E i \in 1..Len(form) : form[i] \in RegexpChars
       \/ form = <<".", "/">>

\* C7: under the default rules validatePattern returns a violation exactly
\* for the patterns, negated or not, whose positive form has one of the
\* invalid shapes; given an empty rule mapping it returns none.
C7_ValidatePatternDefaultRules ==
    Called("validatePattern") =>
        IF args.rules.given
        THEN args.rules.rules = <<>> => result = <<>>
        ELSE (Len(result) >= 1) <=> InvalidShape(args.pattern)

\* A negated pattern that breaks two default rules.
C7_Witness ==
    /\ Called("validatePattern") /\ ~args.rules.given
    /\ Len(args.pattern) > 0 /\ args.pattern[1] = "!"
    /\ Len(result) >= 2

(***************************************************************************)
(* Properties of dirMightMatch                                             *)
(***************************************************************************)

\* The paths at most MaxPatternSegments levels below a directory.
PathsBelow(dir) ==
    {dir \o Rooted(segments) :
        segments \in UNION {[1..k -> DirNames] : k \in 1..MaxPatternSegments}}

\* C8: for a rooted pattern, dirMightMatch is true of every directory that
\* is a strict ancestor of a path matching the pattern exactly.
C8_DirMightMatchOverApproximates ==
    (Called("dirMightMatch") /\ args.pattern[1] = "/") =>
        \A file \in PathsBelow(args.pathToDir) :
            minimatch(file, args.pattern, OptionsOrEmpty(Undefined)) => result = TRUE

HasSlash(str) == \E i \in 1..Len(str) : str[i] = "/"

\* The first position of the directory's segments at which the comparison
\* ends: the pattern's segment there is "**", is missing, or differs.
Decisive(dirSegments, patSegments) ==
    {a \in 1..Len(dirSegments) :
        \/ a > Len(patSegments)
        \/ patSegments[a] = <<"*", "*">>
        \/ patSegments[a] # dirSegments[a]}

FirstOf(S) == CHOOSE a \in S : \A b \in S : a <= b

IsNegated(pattern) == Len(pattern) > 0 /\ pattern[1] = "!"

Marker(pattern) == IF IsNegated(pattern) THEN <<"!">> ELSE <<>>

\* C9: addPathToPatterns keeps length and order; a pattern whose positive
\* form has no "/" is unchanged, a relative one of several segments becomes
\* its positive form resolved against the root, one whose positive form
\* starts with "/" becomes that form resolved on its own; the marker of a
\* negated pattern is kept and none is added.
C9_AddPathToPatterns ==
    Called("addPathToPatterns") =>
        /\ Len(result) = Len(args.patterns)
        /\ \A i \in 1..Len(args.patterns) :
            LET pattern == args.patterns[i]
                form    == PositiveForm(pattern)
            IN /\ ~HasSlash(form) => result[i] = pattern
               /\ (HasSlash(form) /\ form[1] # "/") =>
                    result[i] = Marker(pattern)
                                  \o PosixResolve(<<sanitisePath(args.rootPath), form>>)
               /\ (HasSlash(form) /\ form[1] = "/") =>
                    result[i] = Marker(pattern) \o PosixResolve(<<form>>)
               /\ IsNegated(result[i]) <=> IsNegated(pattern)

\* C19: a relative pattern that the default rules accept is left as it is
\* by addPathToPatterns or becomes a path that starts with the sanitised
\* root.
C19_ValidPatternsStayUnderRoot ==
    Called("addPathToPatterns") =>
        \A i \in 1..Len(args.patterns) :
            LET pattern == args.patterns[i]
                form    == PositiveForm(pattern)
            IN (/\ ~LedBy(form, <<"/">>)
                /\ validatePattern(pattern, Undefined) = <<>>) =>
                    \/ result[i] = pattern
                    \/ LedBy(PositiveForm(result[i]), sanitisePath(args.rootPath))

\* The places of a list whose pattern is negated (or not), and the rank of a
\* place among them.
Places(list, negated) == {i \in 1..Len(list) : IsNegated(list[i]) <=> negated}

Rank(list, negated, i) == Cardinality({j \in Places(list, negated) : j <= i})

\* C10: positivePatterns is the sub-sequence of the patterns without a
\* leading "!", negativePatterns the sub-sequence of those with one, less
\* that one marker; order is kept and the lengths add up to the list's.
C10_PolarityPartition ==
    (Called("classify")) =>
        LET list == args.patterns
        IN /\ Len(result.positive) = Cardinality(Places(list, FALSE))
           /\ Len(result.negative) = Cardinality(Places(list, TRUE))
           /\ Len(result.positive) + Len(result.negative) = Len(list)
           /\ \A i \in Places(list, FALSE) :
                result.positive[Rank(list, FALSE, i)] = list[i]
           /\ \A i \in Places(list, TRUE) :
                result.negative[Rank(list, TRUE, i)] = Tail(list[i])

\* A doubly negated pattern followed by a positive one that holds a "!"
\* after its first character.
C10_Witness ==
    /\ Called("classify")
    /\ Len(args.patterns) = 2
    /\ Len(result.positive) = 1 /\ Len(result.negative) = 1
    /\ IsNegated(result.negative[1])
    /\ \E i \in 2..Len(args.patterns[2]) : args.patterns[2][i] = "!"

(***************************************************************************)
(* Properties of positivePattern                                           *)
(***************************************************************************)

\* C11: positivePattern applied to its own result returns that result, for
\* every pattern, also one that starts with several "!".
C11_PositivePatternIdempotent ==
    Called("positivePattern") => result.twice = result.once

====
